---------------------------- MODULE Spec2Model ----------------------------
(***************************************************************************)
(* Model of cupy/_creation/basic.py: the array factories (empty, zeros,    *)
(* ones, full, eye, identity), the *_like factories with their order       *)
(* resolver _new_like_order_and_strides, and the astype wrapper.           *)
(*                                                                         *)
(* Python values are modelled as follows.                                  *)
(*   - an order token is a sequence of one-character strings, so that      *)
(*     str.upper() is computed character by character;                     *)
(*   - an optional shape is a record [kind, n, t]: kind "none" is None,    *)
(*     kind "int" the scalar n, kind "tuple" the tuple t;                  *)
(*   - dtype and subok arguments are strings, "None" being Python's None;  *)
(*   - an array is a record [shape, strides, dtype, bufbytes]: strides in  *)
(*     bytes, bufbytes the byte size of the buffer behind its data         *)
(*     pointer;                                                            *)
(*   - a call's outcome is a record whose status is "ok" or the name of    *)
(*     the exception raised, and whose allocs lists, in order, the byte    *)
(*     sizes of the device allocations the call made.                      *)
(***************************************************************************)
EXTENDS Integers, Sequences, FiniteSets, TLC

VARIABLES
    args,   \* the arguments of the call under way
    pc,     \* the host's position: "start" before the call, "done" after it
    res,    \* the outcome of the call (NoRes before it)
    stream, \* the device operations enqueued on the stream and not yet run
    log,    \* the device operations the stream has run, in order
    mem,    \* the bytes of the array's buffer that hold uninitialized data
    obs     \* what the reads that have run observed

vars == <<args, pc, res, stream, log, mem, obs>>

\* the device side, which the host-only specifications leave untouched
devvars == <<stream, log, mem, obs>>

DeviceIdle == stream = <<>> /\ log = <<>> /\ mem = {} /\ obs = {}

(***************************************************************************)
(* Bounds of the exploration.                                              *)
(***************************************************************************)
\* largest extent of one dimension of a source array or a shape override
MaxDim == 2

\* dimensionalities explored for source arrays and shape overrides
Ndims == 0 .. 2

\* slicing steps of the views used as source arrays (1: no slicing, -1: a
\* reversed axis, which has a negative stride)
Steps == {1, 2, -1}

NoRes == [status |-> "none"]

(***************************************************************************)
(* Shapes, strides and contiguity (the array object's own bookkeeping).    *)
(***************************************************************************)
RECURSIVE Prod(_)
Prod(s) == IF Len(s) = 0 THEN 1 ELSE Head(s) * Prod(Tail(s))

Abs(x) == IF x < 0 THEN -x ELSE x

itemsize(dtype) ==
    CASE dtype = "bool" -> 1
      [] dtype = "int8" -> 1
      [] dtype = "float32" -> 4
      [] dtype = "float64" -> 8

\* product of the extents shape[i+1 .. n]
RECURSIVE ProdFrom(_, _)
ProdFrom(shape, i) ==
    IF i > Len(shape) THEN 1 ELSE shape[i] * ProdFrom(shape, i + 1)

\* product of the extents shape[1 .. i]
RECURSIVE ProdUpTo(_, _)
ProdUpTo(shape, i) ==
    IF i < 1 THEN 1 ELSE shape[i] * ProdUpTo(shape, i - 1)

\* row-major strides: the last axis varies fastest
c_strides(shape, isz) ==
    [i \in 1 .. Len(shape) |-> isz * ProdFrom(shape, i + 1)]

\* column-major strides: the first axis varies fastest
f_strides(shape, isz) ==
    [i \in 1 .. Len(shape) |-> isz * ProdUpTo(shape, i - 1)]

\* flags.c_contiguous: an empty array is contiguous; axes of extent 1 do
\* not count
c_contiguous(a) ==
    \/ Prod(a.shape) = 0
    \/ \A i \in 1 .. Len(a.shape) :
          a.shape[i] # 1 =>
              a.strides[i] = itemsize(a.dtype) * ProdFrom(a.shape, i + 1)

\* flags.f_contiguous
f_contiguous(a) ==
    \/ Prod(a.shape) = 0
    \/ \A i \in 1 .. Len(a.shape) :
          a.shape[i] # 1 =>
              a.strides[i] = itemsize(a.dtype) * ProdUpTo(a.shape, i - 1)

ndim(a) == Len(a.shape)

size(a) == Prod(a.shape)

nbytes(a) == Prod(a.shape) * itemsize(a.dtype)


(***************************************************************************)
(* Optional values.                                                        *)
(***************************************************************************)
NoShape == [kind |-> "none", n |-> 0, t |-> <<>>]

IntShape(k) == [kind |-> "int", n |-> k, t |-> <<>>]

TupleShape(tt) == [kind |-> "tuple", n |-> 0, t |-> tt]

NoStrides == [given |-> FALSE, v |-> <<>>]

SomeStrides(st) == [given |-> TRUE, v |-> st]

NoMemptr == [given |-> FALSE, bytes |-> 0]

SomeMemptr(b) == [given |-> TRUE, bytes |-> b]

NoArr == [shape |-> <<>>, strides |-> <<>>, dtype |-> "none", bufbytes |-> 0]

NoFill == [kind |-> "none", value |-> 0, count |-> 0]

\* Python truthiness of a shape argument: None, 0 and () are falsy
Truthy(shape) ==
    CASE shape.kind = "none" -> FALSE
      [] shape.kind = "int" -> shape.n # 0
      [] shape.kind = "tuple" -> Len(shape.t) > 0

\* numpy.isscalar(shape)
isscalar(shape) == shape.kind = "int"

\* the tuple an int-or-tuple shape denotes to the array constructor
as_tuple(shape) == IF shape.kind = "int" THEN <<shape.n>> ELSE shape.t

(***************************************************************************)
(* Order tokens.                                                           *)
(***************************************************************************)
upper_char(c) ==
    CASE c = "c" -> "C"
      [] c = "f" -> "F"
      [] c = "a" -> "A"
      [] c = "k" -> "K"
      [] c = "x" -> "X"
      [] OTHER -> c

\* str.upper()
upper(order) == [i \in 1 .. Len(order) |-> upper_char(order[i])]

\* cupy._core.internal._update_order_char: 'A' becomes 'F' only for a source
\* that is column-major and not row-major, else 'C'; 'K' mirrors the source's
\* contiguity and stays 'K' for a source that is neither
_update_order_char(is_c_contiguous, is_f_contiguous, order_char) ==
    CASE order_char = "A" ->
            IF is_f_contiguous /\ ~is_c_contiguous THEN "F" ELSE "C"
      [] order_char = "K" ->
            IF is_c_contiguous THEN "C"
            ELSE IF is_f_contiguous THEN "F" ELSE "K"
      [] OTHER -> order_char

RECURSIVE ProdOver(_, _)
ProdOver(shape, axes) ==
    IF axes = {} THEN 1
    ELSE LET i == CHOOSE j \in axes : TRUE
         IN shape[i] * ProdOver(shape, axes \ {i})

\* cupy._core.internal._get_strides_for_order_K: the axes are sorted by
\* (abs(stride), -index) of the source and are given compact strides for the
\* target shape in that order, so the source's fastest axis stays fastest
_get_strides_for_order_K(a, dtype, shape) ==
    LET dims == IF shape.kind # "none" /\ Len(shape.t) > 0
                THEN shape.t ELSE a.shape
        before(i) ==
            {j \in 1 .. ndim(a) :
                \/ Abs(a.strides[j]) < Abs(a.strides[i])
                \/ Abs(a.strides[j]) = Abs(a.strides[i]) /\ j > i}
    IN [i \in 1 .. ndim(a) |-> itemsize(dtype) * ProdOver(dims, before(i))]

(***************************************************************************)
(* Outcomes of calls.                                                      *)
(***************************************************************************)
Raise(exc, allocs) ==
    [status |-> exc, order |-> "-", strides |-> NoStrides,
     memptr |-> NoMemptr, arr |-> NoArr, allocs |-> allocs, fill |-> NoFill]

Resolved(order, strides, memptr, allocs) ==
    [status |-> "ok", order |-> order, strides |-> strides,
     memptr |-> memptr, arr |-> NoArr, allocs |-> allocs, fill |-> NoFill]

\* cupy.ndarray(shape, dtype, memptr, strides, order): without a memptr the
\* constructor allocates size * itemsize bytes; explicit strides take
\* precedence over order and need a memptr
ndarray(shape, dtype, memptr, strides, order, allocs) ==
    LET shp == as_tuple(shape)
        isz == itemsize(dtype)
        nb == Prod(shp) * isz
        al == IF memptr.given THEN allocs ELSE Append(allocs, nb)
        buf == IF memptr.given THEN memptr.bytes ELSE nb
        st == IF strides.given THEN strides.v
              ELSE IF order = "C" THEN c_strides(shp, isz)
              ELSE f_strides(shp, isz)
    IN IF strides.given /\ ~memptr.given
       THEN Raise("ValueError", al)
       ELSE [status |-> "ok", order |-> order, strides |-> strides,
             memptr |-> memptr,
             arr |-> [shape |-> shp, strides |-> st, dtype |-> dtype,
                      bufbytes |-> buf],
             allocs |-> al, fill |-> NoFill]

empty(shape, dtype, order, allocs) ==
    ndarray(shape, dtype, NoMemptr, NoStrides, order, allocs)

ValidOrders == {<<"C">>, <<"F">>, <<"K">>, <<"A">>}

\* mutant: falls back only when the shape has fewer dimensions
_new_like_ndim_less_than(a, dtype, order, shape, get_memptr) ==
    LET up == upper(order)
        shp == IF isscalar(shape) THEN TupleShape(<<shape.n>>) ELSE shape
    IN IF up \notin ValidOrders THEN Raise("ValueError", <<>>)
       ELSE IF up[1] = "K" /\ shp.kind # "none" /\ Len(shp.t) < ndim(a)
       THEN Resolved("C", NoStrides, NoMemptr, <<>>)
       ELSE LET oc == _update_order_char(c_contiguous(a), f_contiguous(a), up[1])
            IN IF oc = "K"
               THEN LET strides == _get_strides_for_order_K(a, dtype, shp)
                        sz == IF shp.kind # "none" THEN Prod(shp.t) ELSE size(a)
                        e == empty(IntShape(sz), dtype, "C", <<>>)
                    IN IF get_memptr
                       THEN Resolved("C", SomeStrides(strides),
                                     SomeMemptr(e.arr.bufbytes), e.allocs)
                       ELSE Resolved("C", SomeStrides(strides), NoMemptr, <<>>)
               ELSE Resolved(oc, NoStrides, NoMemptr, <<>>)

\* mutant: the order is not resolved against the contiguity flags
_new_like_no_update(a, dtype, order, shape, get_memptr) ==
    LET up == upper(order)
        shp == IF isscalar(shape) THEN TupleShape(<<shape.n>>) ELSE shape
    IN IF up \notin ValidOrders THEN Raise("ValueError", <<>>)
       ELSE IF up[1] = "K" /\ shp.kind # "none" /\ Len(shp.t) # ndim(a)
       THEN Resolved("C", NoStrides, NoMemptr, <<>>)
       ELSE LET oc == up[1]
            IN IF oc = "K"
               THEN LET strides == _get_strides_for_order_K(a, dtype, shp)
                        sz == IF shp.kind # "none" THEN Prod(shp.t) ELSE size(a)
                        e == empty(IntShape(sz), dtype, "C", <<>>)
                    IN IF get_memptr
                       THEN Resolved("C", SomeStrides(strides),
                                     SomeMemptr(e.arr.bufbytes), e.allocs)
                       ELSE Resolved("C", SomeStrides(strides), NoMemptr, <<>>)
               ELSE Resolved(oc, NoStrides, NoMemptr, <<>>)

\* mutant: the two contiguity flags are passed in the wrong order
_new_like_flags_swapped(a, dtype, order, shape, get_memptr) ==
    LET up == upper(order)
        shp == IF isscalar(shape) THEN TupleShape(<<shape.n>>) ELSE shape
    IN IF up \notin ValidOrders THEN Raise("ValueError", <<>>)
       ELSE IF up[1] = "K" /\ shp.kind # "none" /\ Len(shp.t) # ndim(a)
       THEN Resolved("C", NoStrides, NoMemptr, <<>>)
       ELSE LET oc == _update_order_char(f_contiguous(a), c_contiguous(a), up[1])
            IN IF oc = "K"
               THEN LET strides == _get_strides_for_order_K(a, dtype, shp)
                        sz == IF shp.kind # "none" THEN Prod(shp.t) ELSE size(a)
                        e == empty(IntShape(sz), dtype, "C", <<>>)
                    IN IF get_memptr
                       THEN Resolved("C", SomeStrides(strides),
                                     SomeMemptr(e.arr.bufbytes), e.allocs)
                       ELSE Resolved("C", SomeStrides(strides), NoMemptr, <<>>)
               ELSE Resolved(oc, NoStrides, NoMemptr, <<>>)

\* mutant: only the first character of the token is validated
_new_like_first_char_only(a, dtype, order, shape, get_memptr) ==
    LET up == upper(order)
        shp == IF isscalar(shape) THEN TupleShape(<<shape.n>>) ELSE shape
    IN IF Len(up) = 0 \/ <<up[1]>> \notin ValidOrders THEN Raise("ValueError", <<>>)
       ELSE IF up[1] = "K" /\ shp.kind # "none" /\ Len(shp.t) # ndim(a)
       THEN Resolved("C", NoStrides, NoMemptr, <<>>)
       ELSE LET oc == _update_order_char(c_contiguous(a), f_contiguous(a), up[1])
            IN IF oc = "K"
               THEN LET strides == _get_strides_for_order_K(a, dtype, shp)
                        sz == IF shp.kind # "none" THEN Prod(shp.t) ELSE size(a)
                        e == empty(IntShape(sz), dtype, "C", <<>>)
                    IN IF get_memptr
                       THEN Resolved("C", SomeStrides(strides),
                                     SomeMemptr(e.arr.bufbytes), e.allocs)
                       ELSE Resolved("C", SomeStrides(strides), NoMemptr, <<>>)
               ELSE Resolved(oc, NoStrides, NoMemptr, <<>>)

\* mutant: the buffer is always sized to the source
_new_like_size_of_source(a, dtype, order, shape, get_memptr) ==
    LET up == upper(order)
        shp == IF isscalar(shape) THEN TupleShape(<<shape.n>>) ELSE shape
    IN IF up \notin ValidOrders THEN Raise("ValueError", <<>>)
       ELSE IF up[1] = "K" /\ shp.kind # "none" /\ Len(shp.t) # ndim(a)
       THEN Resolved("C", NoStrides, NoMemptr, <<>>)
       ELSE LET oc == _update_order_char(c_contiguous(a), f_contiguous(a), up[1])
            IN IF oc = "K"
               THEN LET strides == _get_strides_for_order_K(a, dtype, shp)
                        sz == size(a)
                        e == empty(IntShape(sz), dtype, "C", <<>>)
                    IN IF get_memptr
                       THEN Resolved("C", SomeStrides(strides),
                                     SomeMemptr(e.arr.bufbytes), e.allocs)
                       ELSE Resolved("C", SomeStrides(strides), NoMemptr, <<>>)
               ELSE Resolved(oc, NoStrides, NoMemptr, <<>>)

\* _new_like_order_and_strides(a, dtype, order, shape=None, *, get_memptr=True)
_new_like_order_and_strides(a, dtype, order, shape, get_memptr) ==
    LET up == upper(order)
        shp == IF isscalar(shape) THEN TupleShape(<<shape.n>>) ELSE shape
    IN IF up \notin ValidOrders THEN Raise("ValueError", <<>>)
       ELSE IF up[1] = "K" /\ shp.kind # "none" /\ Len(shp.t) # ndim(a)
       THEN Resolved("C", NoStrides, NoMemptr, <<>>)
       ELSE LET oc == _update_order_char(c_contiguous(a), f_contiguous(a), up[1])
            IN IF oc = "K"
               THEN LET strides == _get_strides_for_order_K(a, dtype, shp)
                        sz == IF shp.kind # "none" THEN Prod(shp.t) ELSE size(a)
                        e == empty(IntShape(sz), dtype, "C", <<>>)
                    IN IF get_memptr
                       THEN Resolved("C", SomeStrides(strides),
                                     SomeMemptr(e.arr.bufbytes), e.allocs)
                       ELSE Resolved("C", SomeStrides(strides), NoMemptr, <<>>)
               ELSE Resolved(oc, NoStrides, NoMemptr, <<>>)

(***************************************************************************)
(* The *_like factories.                                                   *)
(***************************************************************************)
\* the shape handed to the constructor: shape if shape else a.shape
like_shape(a, shape) == IF Truthy(shape) THEN shape ELSE TupleShape(a.shape)

empty_like(prototype, dtype, order, subok, shape) ==
    IF subok # "None" THEN Raise("TypeError", <<>>)
    ELSE LET dt == IF dtype = "None" THEN prototype.dtype ELSE dtype
             r == _new_like_order_and_strides(prototype, dt, order, shape, TRUE)
         IN IF r.status # "ok" THEN r
            ELSE ndarray(like_shape(prototype, shape), dt, r.memptr,
                         r.strides, r.order, r.allocs)

ones_like(a, dtype, order, subok, shape) ==
    IF subok # "None" THEN Raise("TypeError", <<>>)
    ELSE LET dt == IF dtype = "None" THEN a.dtype ELSE dtype
             r == _new_like_order_and_strides(a, dt, order, shape, TRUE)
             n == ndarray(like_shape(a, shape), dt, r.memptr, r.strides,
                          r.order, r.allocs)
         IN IF r.status # "ok" THEN r
            ELSE IF n.status # "ok" THEN n
            ELSE [n EXCEPT !.fill = [kind |-> "fill", value |-> 1,
                                     count |-> size(n.arr)]]

zeros_like(a, dtype, order, subok, shape) ==
    IF subok # "None" THEN Raise("TypeError", <<>>)
    ELSE LET dt == IF dtype = "None" THEN a.dtype ELSE dtype
             r == _new_like_order_and_strides(a, dt, order, shape, TRUE)
             n == ndarray(like_shape(a, shape), dt, r.memptr, r.strides,
                          r.order, r.allocs)
         IN IF r.status # "ok" THEN r
            ELSE IF n.status # "ok" THEN n
            ELSE [n EXCEPT !.fill = [kind |-> "memset_async", value |-> 0,
                                     count |-> nbytes(n.arr)]]

\* mutant: subok is looked at only after the order has been resolved
full_like_subok_checked_late(a, fill_value, dtype, order, subok, shape) ==
    LET dt == IF dtype = "None" THEN a.dtype ELSE dtype
        r == _new_like_order_and_strides(a, dt, order, shape, TRUE)
    IN IF r.status # "ok" THEN r
       ELSE IF subok # "None" THEN Raise("TypeError", r.allocs)
       ELSE LET n == ndarray(like_shape(a, shape), dt, r.memptr, r.strides,
                             r.order, r.allocs)
            IN IF n.status # "ok" THEN n
               ELSE [n EXCEPT !.fill = [kind |-> "copyto",
                                        value |-> fill_value,
                                        count |-> size(n.arr)]]

full_like(a, fill_value, dtype, order, subok, shape) ==
    IF subok # "None" THEN Raise("TypeError", <<>>)
    ELSE LET dt == IF dtype = "None" THEN a.dtype ELSE dtype
             r == _new_like_order_and_strides(a, dt, order, shape, TRUE)
             n == ndarray(like_shape(a, shape), dt, r.memptr, r.strides,
                          r.order, r.allocs)
         IN IF r.status # "ok" THEN r
            ELSE IF n.status # "ok" THEN n
            ELSE [n EXCEPT !.fill = [kind |-> "copyto", value |-> fill_value,
                                     count |-> size(n.arr)]]

(***************************************************************************)
(* The inputs explored.                                                    *)
(***************************************************************************)
Dtypes == {"int8", "float32"}

DtypeArgs == {"None", "int8"}

SubokArgs == {"None", "True", "False"}

Orders ==
    {<<"C">>, <<"F">>, <<"A">>, <<"K">>, <<"c">>, <<"f">>, <<"a">>, <<"k">>,
     <<"X">>, <<>>, <<"K", "C">>}

FillValues == {7}

ShapesOf(n) == [1 .. n -> 0 .. MaxDim]

Shapes == UNION {ShapesOf(n) : n \in Ndims}

Perms(n) == {q \in [1 .. n -> 1 .. n] : \A i, j \in 1 .. n : q[i] = q[j] => i = j}

\* the view base[..., ::step].transpose(...) of a row-major base array, of
\* shape s, whose axis q[j] is the base's axis j
View(s, q, step, dtype) ==
    LET n == Len(s)
        b == [j \in 1 .. n |-> s[q[j]] * (IF j = n THEN Abs(step) ELSE 1)]
        bs == c_strides(b, itemsize(dtype))
        sl == [j \in 1 .. n |-> bs[j] * (IF j = n THEN step ELSE 1)]
    IN [shape |-> s,
        strides |-> [i \in 1 .. n |-> sl[CHOOSE j \in 1 .. n : q[j] = i]],
        dtype |-> dtype,
        bufbytes |-> Prod(b) * itemsize(dtype)]

Sources ==
    UNION {{View(s, q, step, dt) :
                q \in Perms(Len(s)), step \in Steps, dt \in Dtypes} :
           s \in Shapes}

ShapeArgs ==
    {NoShape} \cup {IntShape(k) : k \in 0 .. MaxDim}
              \cup {TupleShape(s) : s \in Shapes}

LikeArgs ==
    [a : Sources, dtype : DtypeArgs, order : Orders, subok : SubokArgs,
     shape : ShapeArgs]

(***************************************************************************)
(* Specification of the *_like calls: one call per behaviour.              *)
(***************************************************************************)
Init ==
    /\ args \in LikeArgs
    /\ pc = "start"
    /\ res = NoRes
    /\ DeviceIdle

Call_empty_like ==
    /\ pc = "start"
    /\ res' = [fn |-> "empty_like", get_memptr |-> TRUE,
               out |-> empty_like(args.a, args.dtype, args.order,
                                  args.subok, args.shape)]
    /\ pc' = "done"
    /\ UNCHANGED <<args, devvars>>

Call_ones_like ==
    /\ pc = "start"
    /\ res' = [fn |-> "ones_like", get_memptr |-> TRUE,
               out |-> ones_like(args.a, args.dtype, args.order,
                                 args.subok, args.shape)]
    /\ pc' = "done"
    /\ UNCHANGED <<args, devvars>>

Call_zeros_like ==
    /\ pc = "start"
    /\ res' = [fn |-> "zeros_like", get_memptr |-> TRUE,
               out |-> zeros_like(args.a, args.dtype, args.order,
                                  args.subok, args.shape)]
    /\ pc' = "done"
    /\ UNCHANGED <<args, devvars>>

Call_full_like ==
    /\ pc = "start"
    /\ \E v \in FillValues :
          res' = [fn |-> "full_like", get_memptr |-> TRUE,
                  out |-> full_like(args.a, v, args.dtype, args.order,
                                    args.subok, args.shape)]
    /\ pc' = "done"
    /\ UNCHANGED <<args, devvars>>

\* a direct call of the resolver, as the other modules of the package make
Call_new_like_order_and_strides ==
    /\ pc = "start"
    /\ args.subok = "None"
    /\ \E g \in BOOLEAN :
          res' = [fn |-> "_new_like_order_and_strides", get_memptr |-> g,
                  out |-> _new_like_order_and_strides(
                              args.a,
                              IF args.dtype = "None" THEN args.a.dtype
                                                     ELSE args.dtype,
                              args.order, args.shape, g)]
    /\ pc' = "done"
    /\ UNCHANGED <<args, devvars>>

Next ==
    \/ Call_empty_like
    \/ Call_ones_like
    \/ Call_zeros_like
    \/ Call_full_like
    \/ Call_new_like_order_and_strides

Spec == Init /\ [][Next]_vars

(***************************************************************************)
(* Vocabulary of the claims about the *_like calls.                        *)
(***************************************************************************)
LikeFns == {"empty_like", "ones_like", "zeros_like", "full_like"}

Done == pc = "done"

\* the call was one of the four *_like factories
LikeDone == Done /\ res.fn \in LikeFns

\* the requested order, case-insensitively, is the one-letter token c
OrderIs(c) == upper(args.order) = <<c>>

\* dimensionality of a shape override (an int counts as one-dimensional)
ShapeNdim(shape) == IF shape.kind = "int" THEN 1 ELSE Len(shape.t)

ShapeGiven == args.shape.kind # "none"

NdimChanged == ShapeGiven /\ ShapeNdim(args.shape) # ndim(args.a)

NoStridesNoBuffer == ~res.out.strides.given /\ ~res.out.memptr.given

\* the dtype the call resolves
ResolvedDtype == IF args.dtype = "None" THEN args.a.dtype ELSE args.dtype

\* the shape the resolver works with (None: the source's own)
TargetDims == IF ShapeGiven THEN as_tuple(args.shape) ELSE args.a.shape

\* C1: with order 'K' and a shape override whose dimensionality differs from
\* the source's, every *_like call and the resolver itself resolve to order
\* 'C' with no explicit strides and no buffer, whatever the source's flags,
\* and the array a *_like call returns is row-major.
C1_NdimMismatchFallsBackToC ==
    (Done /\ args.subok = "None" /\ OrderIs("K") /\ NdimChanged) =>
        /\ res.out.status = "ok"
        /\ res.out.order = "C"
        /\ NoStridesNoBuffer
        /\ res.fn \in LikeFns =>
              /\ c_contiguous(res.out.arr)
              /\ res.out.arr.strides =
                    c_strides(res.out.arr.shape, itemsize(ResolvedDtype))

C1_Witness ==
    /\ Done /\ res.fn = "empty_like" /\ args.subok = "None"
    /\ args.order = <<"K">>
    /\ args.shape = IntShape(2)
    /\ ndim(args.a) = 2
    /\ ~c_contiguous(args.a) /\ f_contiguous(args.a)
    /\ res.out.status = "ok" /\ res.out.order = "C"

\* C2: a *_like call that is given a shape override (0 and () included)
\* returns an array of that shape, and uses the source's shape only when the
\* override is None.
C2_OverrideIsResultShape ==
    (LikeDone /\ res.out.status = "ok") =>
        res.out.arr.shape =
            (IF ShapeGiven THEN as_tuple(args.shape) ELSE args.a.shape)

\* C2 restricted to the overrides Python treats as true (not 0, not ()),
\* where the code does what the claim says.
C2_TruthyOverrideIsResultShape ==
    (LikeDone /\ res.out.status = "ok") =>
        res.out.arr.shape =
            (IF Truthy(args.shape) THEN as_tuple(args.shape) ELSE args.a.shape)

\* C3: zeros_like with order 'K' and no change of dimensionality keeps the
\* source's contiguity: a row-major source gives order 'C', a source that is
\* column-major and not row-major gives order 'F', both without explicit
\* strides, and the result is contiguous the same way.
C3_ZerosLikeKeepsContiguity ==
    (Done /\ res.fn = "zeros_like" /\ args.subok = "None" /\ OrderIs("K")
          /\ ~NdimChanged) =>
        /\ res.out.status = "ok"
        /\ c_contiguous(args.a) =>
              /\ res.out.order = "C" /\ NoStridesNoBuffer
              /\ c_contiguous(res.out.arr)
        /\ (f_contiguous(args.a) /\ ~c_contiguous(args.a)) =>
              /\ res.out.order = "F" /\ NoStridesNoBuffer
              /\ f_contiguous(res.out.arr)

C3_Witness ==
    /\ Done /\ res.fn = "zeros_like" /\ args.subok = "None"
    /\ args.order = <<"K">> /\ ~ShapeGiven
    /\ f_contiguous(args.a) /\ ~c_contiguous(args.a)
    /\ res.out.order = "F"
    /\ f_contiguous(res.out.arr) /\ ~c_contiguous(res.out.arr)

C5_TokenOutsideCFAKRejected ==
    (Done /\ args.subok = "None" /\ args.order \notin ValidOrders) =>
        res.out.status = "ValueError" /\ res.out.allocs = <<>>

\* C5 as amended: the token is upper-cased first, so a call is rejected with
\* a ValueError, before anything is allocated, exactly when the upper-cased
\* token is outside {C, F, A, K}; c, f, a and k are accepted.
C5_UppercasedTokenOutsideCFAKRejected ==
    (Done /\ args.subok = "None") =>
        /\ upper(args.order) \notin ValidOrders =>
              res.out.status = "ValueError" /\ res.out.allocs = <<>>
        /\ upper(args.order) \in ValidOrders => res.out.status = "ok"

C5_Witness ==
    /\ Done /\ res.fn = "ones_like" /\ args.subok = "None"
    /\ args.order = <<"K", "C">>
    /\ args.shape = TupleShape(<<2, 2>>)
    /\ ~c_contiguous(args.a) /\ ~f_contiguous(args.a)
    /\ res.out.status = "ValueError"

\* C6: every *_like factory called with a subok other than None raises the
\* not-supported error (TypeError) whatever the other arguments are, before
\* the order is resolved and before anything is allocated.
C6_SubokRejectedFirst ==
    (LikeDone /\ args.subok # "None") =>
        /\ res.out.status = "TypeError"
        /\ res.out.order = "-"
        /\ res.out.allocs = <<>>

C6_Witness ==
    /\ Done /\ res.fn = "full_like" /\ args.subok = "False"
    /\ args.order = <<"X">>
    /\ NdimChanged
    /\ res.out.status = "TypeError"

\* the case in which order 'K' survives the resolution
KeepCase ==
    /\ OrderIs("K") /\ ~NdimChanged
    /\ ~c_contiguous(args.a) /\ ~f_contiguous(args.a)

\* the byte offsets the strides st address for an array of extents dims
Offsets(dims, st) ==
    LET n == Len(dims)
        idx == {ix \in [1 .. n -> 0 .. MaxDim] :
                   \A i \in 1 .. n : ix[i] < dims[i]}
        RECURSIVE dot(_, _)
        dot(ix, i) == IF i > n THEN 0 ELSE ix[i] * st[i] + dot(ix, i + 1)
    IN {dot(ix, 1) : ix \in idx}

\* st orders the axes as the source's strides do (an array without elements
\* has no memory order to reproduce) and addresses every element of an array
\* of extents dims once, within Prod(dims) items
ReproducesOrder(a, dims, st, isz) ==
    /\ Len(st) = Len(dims)
    /\ Prod(dims) > 0 =>
          \A i, j \in 1 .. Len(dims) :
              Abs(a.strides[i]) < Abs(a.strides[j]) => st[i] <= st[j]
    /\ Cardinality(Offsets(dims, st)) = Prod(dims)
    /\ \A o \in Offsets(dims, st) : o >= 0 /\ o + isz <= Prod(dims) * isz

\* C10 as stated: in the keep case the resolver reports 'C' with explicit
\* strides reproducing the source's axis order and a fresh buffer of
\* Prod(target shape) items; in every other case an order in {C, F} with no
\* strides and no buffer.
C10_KeepCaseStridesAndBuffer ==
    (Done /\ res.fn = "_new_like_order_and_strides" /\ res.out.status = "ok") =>
        IF KeepCase
        THEN /\ res.out.order = "C"
             /\ res.out.strides.given
             /\ ReproducesOrder(args.a, TargetDims, res.out.strides.v,
                                itemsize(ResolvedDtype))
             /\ res.out.memptr.given
             /\ res.out.memptr.bytes = Prod(TargetDims) * itemsize(ResolvedDtype)
             /\ res.out.allocs = <<res.out.memptr.bytes>>
        ELSE /\ res.out.order \in {"C", "F"}
             /\ NoStridesNoBuffer

\* C10 as amended: as stated when get_memptr is true (the default, which the
\* *_like factories use); with get_memptr false the keep case reports the
\* same order and strides and no buffer, and allocates nothing.
C10_KeepCaseBufferIfRequested ==
    (Done /\ res.fn = "_new_like_order_and_strides" /\ res.out.status = "ok") =>
        IF KeepCase
        THEN /\ res.out.order = "C"
             /\ res.out.strides.given
             /\ ReproducesOrder(args.a, TargetDims, res.out.strides.v,
                                itemsize(ResolvedDtype))
             /\ res.out.memptr.given = res.get_memptr
             /\ res.get_memptr =>
                   /\ res.out.memptr.bytes =
                         Prod(TargetDims) * itemsize(ResolvedDtype)
                   /\ res.out.allocs = <<res.out.memptr.bytes>>
             /\ ~res.get_memptr => res.out.allocs = <<>>
        ELSE /\ res.out.order \in {"C", "F"}
             /\ NoStridesNoBuffer

C10_Witness ==
    /\ Done /\ res.fn = "_new_like_order_and_strides" /\ res.get_memptr
    /\ KeepCase
    /\ args.a.shape = <<2, 2>> /\ args.a.strides[1] < args.a.strides[2]
    /\ args.shape = TupleShape(<<2, 1>>)
    /\ res.out.strides.given /\ res.out.strides.v[1] < res.out.strides.v[2]
    /\ res.out.memptr.given
    /\ res.out.memptr.bytes = 2 * itemsize(ResolvedDtype)

\* the *_like call handed the constructor an explicit buffer and strides
ExplicitBufferAndStrides ==
    /\ LikeDone /\ res.out.status = "ok"
    /\ res.out.strides.given /\ res.out.memptr.given

\* every element of arr lies, whole, inside arr's buffer
InBounds(arr) ==
    \A o \in Offsets(arr.shape, arr.strides) :
        o >= 0 /\ o + itemsize(arr.dtype) <= arr.bufbytes

\* C11: in every *_like call that hands the constructor an explicit buffer
\* and strides, the constructor's shape is the shape the resolver computed
\* the strides and sized the buffer for, so the buffer holds exactly the
\* result's elements and the strides address only elements inside it; this
\* for every shape override, 0 and () included.
C11_ConstructorShapeIsResolverShape ==
    ExplicitBufferAndStrides =>
        /\ res.out.arr.shape = TargetDims
        /\ res.out.arr.bufbytes = size(res.out.arr) * itemsize(res.out.arr.dtype)
        /\ InBounds(res.out.arr)

\* C11 restricted to the overrides Python treats as true (not 0, not ()) and
\* to no override, where the code does what the claim says.
C11_HoldsUnlessOverrideIsFalsy ==
    (ExplicitBufferAndStrides /\ (Truthy(args.shape) \/ ~ShapeGiven)) =>
        /\ res.out.arr.shape = TargetDims
        /\ res.out.arr.bufbytes = size(res.out.arr) * itemsize(res.out.arr.dtype)
        /\ InBounds(res.out.arr)

\* the state C11 fails in: an override of 0 on a one-dimensional source that
\* is not contiguous leaves an array of the source's shape on an empty buffer
C11_ElementsBeyondEmptyBuffer ==
    /\ ExplicitBufferAndStrides
    /\ args.shape = IntShape(0)
    /\ ndim(args.a) = 1 /\ size(args.a) = 2
    /\ res.out.arr.shape = args.a.shape
    /\ res.out.arr.bufbytes = 0
    /\ ~InBounds(res.out.arr)

(***************************************************************************)
(* zeros, eye and identity.  The contents of a two-dimensional array are a *)
(* function from <<row, column>> (from 0) to the element's value.          *)
(***************************************************************************)
\* largest N and M explored for eye and identity
MaxN == 3

\* values an element of uninitialized memory may turn out to hold
JunkValues == {0, 1, 5}

NoInt == [given |-> FALSE, v |-> 0]

SomeInt(k) == [given |-> TRUE, v |-> k]

Max(x, y) == IF x > y THEN x ELSE y

Min(x, y) == IF x < y THEN x ELSE y

zeros(shape, dtype, order) ==
    LET n == ndarray(shape, dtype, NoMemptr, NoStrides, order, <<>>)
    IN [n EXCEPT !.fill = [kind |-> "memset_async", value |-> 0,
                           count |-> nbytes(n.arr)]]

\* the contents of a freshly allocated N x M array: whatever was in memory
uninitialized(N, M, junk) == [c \in (0 .. N - 1) \X (0 .. M - 1) |-> junk]

\* the contents once the stream has run the memset: an element is zero when
\* all its bytes lie within the first count bytes of the buffer
after_memset(data, arr, fill) ==
    [c \in DOMAIN data |->
        IF c[1] * arr.strides[1] + c[2] * arr.strides[2] + itemsize(arr.dtype)
               <= fill.count
        THEN fill.value ELSE data[c]]

\* ndarray.diagonal(k) of an N x M array: the cells it views
diagonal(N, M, k) ==
    LET i0 == IF k >= 0 THEN 0 ELSE -k
        j0 == IF k >= 0 THEN k ELSE 0
        len == Max(0, IF k >= 0 THEN Min(N, M - k) ELSE Min(N + k, M))
    IN {<<i0 + t, j0 + t>> : t \in 0 .. len - 1}

\* view.fill(value), run by the stream after what was enqueued before it
fill_cells(data, cells, value) ==
    [c \in DOMAIN data |-> IF c \in cells THEN value ELSE data[c]]

\* mutant: the ones always go to the main diagonal
eye_main_diagonal(N, M, k, dtype, order, junk) ==
    LET m == IF M.given THEN M.v ELSE N
        ret == zeros(TupleShape(<<N, m>>), dtype, order)
        z == after_memset(uninitialized(N, m, junk), ret.arr, ret.fill)
    IN IF k <= -N \/ k >= m
       THEN [out |-> ret, data |-> z]
       ELSE [out |-> ret, data |-> fill_cells(z, diagonal(N, m, 0), 1)]

eye(N, M, k, dtype, order, junk) ==
    LET m == IF M.given THEN M.v ELSE N
        ret == zeros(TupleShape(<<N, m>>), dtype, order)
        z == after_memset(uninitialized(N, m, junk), ret.arr, ret.fill)
    IN IF k <= -N \/ k >= m
       THEN [out |-> ret, data |-> z]
       ELSE [out |-> ret, data |-> fill_cells(z, diagonal(N, m, k), 1)]

identity(n, dtype, junk) == eye(n, NoInt, 0, dtype, "C", junk)

EyeArgs ==
    [N : 0 .. MaxN,
     M : {NoInt} \cup {SomeInt(m) : m \in 0 .. MaxN},
     k : -(MaxN + 1) .. MaxN + 1,
     dtype : Dtypes,
     order : {"C", "F"}]

InitEye ==
    /\ args \in EyeArgs
    /\ pc = "start"
    /\ res = NoRes
    /\ DeviceIdle

Call_eye ==
    /\ pc = "start"
    /\ \E junk \in JunkValues :
          LET r == eye(args.N, args.M, args.k, args.dtype, args.order, junk)
          IN res' = [fn |-> "eye", junk |-> junk, out |-> r.out,
                     data |-> r.data]
    /\ pc' = "done"
    /\ UNCHANGED <<args, devvars>>

Call_identity ==
    /\ pc = "start"
    /\ \E junk \in JunkValues :
          LET r == identity(args.N, args.dtype, junk)
          IN res' = [fn |-> "identity", junk |-> junk, out |-> r.out,
                     data |-> r.data]
    /\ pc' = "done"
    /\ UNCHANGED <<args, devvars>>

NextEye == Call_eye \/ Call_identity

SpecEye == InitEye /\ [][NextEye]_vars

\* the number of columns eye works with
EyeM == IF args.M.given THEN args.M.v ELSE args.N

\* C8: eye(N, M, k) is an N x M array (M defaulting to N) whose element
\* (i, j) is one exactly when j - i = k and zero otherwise, so it is all
\* zeros when k <= -N or k >= M; identity(n) equals eye(n, n, 0), the n x n
\* identity matrix.
C8_EyeOnesOnDiagonalK ==
    Done =>
        /\ res.fn = "eye" =>
              /\ res.out.status = "ok"
              /\ res.out.arr.shape = <<args.N, EyeM>>
              /\ DOMAIN res.data = (0 .. args.N - 1) \X (0 .. EyeM - 1)
              /\ \A c \in DOMAIN res.data :
                    res.data[c] = (IF c[2] - c[1] = args.k THEN 1 ELSE 0)
              /\ (args.k <= -args.N \/ args.k >= EyeM) =>
                    \A c \in DOMAIN res.data : res.data[c] = 0
        /\ res.fn = "identity" =>
              /\ res.out.arr.shape = <<args.N, args.N>>
              /\ DOMAIN res.data = (0 .. args.N - 1) \X (0 .. args.N - 1)
              /\ \A c \in DOMAIN res.data :
                    res.data[c] = (IF c[1] = c[2] THEN 1 ELSE 0)
              /\ res.data = eye(args.N, SomeInt(args.N), 0, args.dtype,
                                "C", res.junk).data

C8_Witness ==
    /\ Done /\ res.fn = "eye" /\ res.junk = 5
    /\ args.N = 3 /\ args.M = SomeInt(2) /\ args.k = -1
    /\ res.data[<<1, 0>>] = 1 /\ res.data[<<2, 1>>] = 1
    /\ res.data[<<0, 0>>] = 0 /\ res.data[<<2, 0>>] = 0

(***************************************************************************)
(* astype.  An object is a record [isarray, id, dtype, data]: id is the    *)
(* object's identity, data the elements of an array in order.              *)
(***************************************************************************)
\* most elements of an array given to astype
MaxLen == 2

CastDtypes == {"bool", "int8", "float32"}

\* values an array of each dtype holds in the exploration
ValuesOf(dtype) == IF dtype = "bool" THEN {0, 1} ELSE {-1, 0, 2}

\* the element-wise cast: a number cast to bool is whether it is non-zero
cast(v, dtype) == IF dtype = "bool" THEN (IF v = 0 THEN 0 ELSE 1) ELSE v

\* the identity of the object passed to astype
ArgId == "x"

\* the identity of an object created during the call
FreshId == "new"

NoObj == [isarray |-> FALSE, id |-> "none", dtype |-> "none", data |-> <<>>]

\* ndarray.astype(dtype, copy=copy): the array itself when no copy is asked
\* for and the dtype is already the requested one, else a new array of the
\* requested dtype holding the elements cast
ndarray_astype(x, dtype, copy) ==
    IF ~copy /\ x.dtype = dtype
    THEN [status |-> "ok", obj |-> x, allocs |-> <<>>]
    ELSE [status |-> "ok",
          obj |-> [isarray |-> TRUE, id |-> FreshId, dtype |-> dtype,
                   data |-> [i \in 1 .. Len(x.data) |-> cast(x.data[i], dtype)]],
          allocs |-> <<Len(x.data) * itemsize(dtype)>>]

\* mutant: the copy argument is not passed on, so the default (True) applies
astype_copy_dropped(x, dtype, copy) ==
    IF ~x.isarray
    THEN [status |-> "TypeError", obj |-> NoObj, allocs |-> <<>>]
    ELSE ndarray_astype(x, dtype, TRUE)

astype(x, dtype, copy) ==
    IF ~x.isarray
    THEN [status |-> "TypeError", obj |-> NoObj, allocs |-> <<>>]
    ELSE ndarray_astype(x, dtype, copy)

SeqsUpTo(S, n) == UNION {[1 .. k -> S] : k \in 0 .. n}

Arrays ==
    UNION {{[isarray |-> TRUE, id |-> ArgId, dtype |-> dt, data |-> d] :
                d \in SeqsUpTo(ValuesOf(dt), MaxLen)} : dt \in CastDtypes}

\* objects that are not cupy arrays (a list, a numpy array)
NonArrays ==
    {[isarray |-> FALSE, id |-> ArgId, dtype |-> dt, data |-> d] :
        dt \in {"none", "int8"}, d \in {<<>>, <<2>>}}

AstypeArgs == [x : Arrays \cup NonArrays, dtype : CastDtypes, copy : BOOLEAN]

InitAstype ==
    /\ args \in AstypeArgs
    /\ pc = "start"
    /\ res = NoRes
    /\ DeviceIdle

Call_astype ==
    /\ pc = "start"
    /\ res' = [fn |-> "astype", out |-> astype(args.x, args.dtype, args.copy)]
    /\ pc' = "done"
    /\ UNCHANGED <<args, devvars>>

NextAstype == Call_astype

SpecAstype == InitAstype /\ [][NextAstype]_vars

\* C7: astype returns x itself, allocating nothing, exactly when copy is
\* false and x already has the requested dtype; otherwise it returns a newly
\* allocated array, distinct from x, of the requested dtype, holding x's
\* elements cast; a non-array x raises a TypeError.
C7_AstypeSameObjectIffNoCopyNeeded ==
    Done =>
        IF ~args.x.isarray
        THEN res.out.status = "TypeError" /\ res.out.allocs = <<>>
        ELSE /\ res.out.status = "ok"
             /\ res.out.obj.id = args.x.id <=>
                   (~args.copy /\ args.x.dtype = args.dtype)
             /\ res.out.obj.id = args.x.id =>
                   res.out.obj = args.x /\ res.out.allocs = <<>>
             /\ res.out.obj.id # args.x.id =>
                   /\ res.out.obj.isarray
                   /\ res.out.obj.dtype = args.dtype
                   /\ Len(res.out.allocs) = 1
                   /\ Len(res.out.obj.data) = Len(args.x.data)
                   /\ \A i \in 1 .. Len(args.x.data) :
                         res.out.obj.data[i] = cast(args.x.data[i], args.dtype)

C7_Witness ==
    /\ Done /\ args.x.isarray /\ ~args.copy
    /\ args.x.dtype = "int8" /\ args.dtype = "int8"
    /\ args.x.data = <<-1, 2>>
    /\ res.out.obj.id = args.x.id /\ res.out.allocs = <<>>

(***************************************************************************)
(* zeros and zeros_like on the stream.  The host runs the factory's        *)
(* statements one by one and, once it has returned, the caller enqueues    *)
(* reads and writes of the array; the device runs the stream's operations  *)
(* in the order they were enqueued, at its own pace.  mem is the set of    *)
(* byte offsets of the array's buffer that hold uninitialized data.        *)
(***************************************************************************)
\* most operations the caller enqueues on the returned array
MaxOps == 2

\* the bytes the elements of the array occupy, as offsets from its data pointer
ElementBytes(arr) ==
    UNION {o .. o + itemsize(arr.dtype) - 1 : o \in Offsets(arr.shape, arr.strides)}

\* what a fresh buffer of n bytes may hold: any byte may be non-zero; the
\* exploration takes all of them, none of them, or the last one alone
GarbagePatterns(n) ==
    {0 .. n - 1, {}} \cup (IF n > 0 THEN {{n - 1}} ELSE {})

ZerosArgs ==
    [fn : {"zeros"}, a : {NoArr}, dtype : Dtypes, order : {<<"C">>, <<"F">>},
     subok : {"None"}, shape : ShapeArgs \ {NoShape}]

ZerosLikeArgs ==
    [fn : {"zeros_like"}, a : Sources, dtype : DtypeArgs,
     order : {<<"C">>, <<"F">>, <<"A">>, <<"K">>, <<"X">>},
     subok : {"None"}, shape : ShapeArgs]

InitStream ==
    /\ args \in ZerosArgs \cup ZerosLikeArgs
    /\ pc = "start"
    /\ res = NoRes
    /\ DeviceIdle

\* zeros: a = cupy.ndarray(shape, dtype, order=order)
Zeros_ndarray ==
    /\ pc = "start" /\ args.fn = "zeros"
    /\ LET z == zeros(args.shape, args.dtype, args.order[1])
       IN \E g \in GarbagePatterns(z.arr.bufbytes) :
             /\ res' = [fn |-> "zeros", out |-> [z EXCEPT !.fill = NoFill],
                        garbage |-> g, issued |-> 0,
                        pending_at_return |-> FALSE]
             /\ mem' = g
    /\ pc' = "allocated"
    /\ UNCHANGED <<args, stream, log, obs>>

\* zeros: a.data.memset_async(0, a.nbytes)
Zeros_memset_async ==
    /\ pc = "allocated" /\ args.fn = "zeros"
    /\ LET z == zeros(args.shape, args.dtype, args.order[1])
       IN /\ stream' = Append(stream, z.fill)
          /\ res' = [res EXCEPT !.out = z]
    /\ pc' = "filled"
    /\ UNCHANGED <<args, log, mem, obs>>

\* zeros_like: everything up to a = cupy.ndarray(shape, dtype, memptr,
\* strides, order), or the exception raised on the way
ZerosLike_ndarray ==
    /\ pc = "start" /\ args.fn = "zeros_like"
    /\ LET z == zeros_like(args.a, args.dtype, args.order, args.subok,
                           args.shape)
       IN \E g \in GarbagePatterns(z.arr.bufbytes) :
             /\ res' = [fn |-> "zeros_like",
                        out |-> [z EXCEPT !.fill = NoFill],
                        garbage |-> g, issued |-> 0,
                        pending_at_return |-> FALSE]
             /\ mem' = g
             /\ pc' = IF z.status = "ok" THEN "allocated" ELSE "raised"
    /\ UNCHANGED <<args, stream, log, obs>>

\* zeros_like: a.data.memset_async(0, a.nbytes).  A fill that reaches beyond
\* the buffer is an out-of-bounds access: the driver may reject it, and the
\* call then raises, or may enqueue it.
ZerosLike_memset_async ==
    /\ pc = "allocated" /\ args.fn = "zeros_like"
    /\ LET z == zeros_like(args.a, args.dtype, args.order, args.subok,
                           args.shape)
       IN \/ /\ stream' = Append(stream, z.fill)
             /\ res' = [res EXCEPT !.out = z]
             /\ pc' = "filled"
          \/ /\ z.fill.count > z.arr.bufbytes
             /\ res' = [res EXCEPT !.out.status = "CUDARuntimeError"]
             /\ pc' = "raised"
             /\ UNCHANGED stream
    /\ UNCHANGED <<args, log, mem, obs>>

\* return a: the host does not wait for the stream
Return ==
    /\ pc = "filled"
    /\ res' = [res EXCEPT !.pending_at_return = (stream # <<>>)]
    /\ pc' = "returned"
    /\ UNCHANGED <<args, stream, log, mem, obs>>

\* the caller enqueues a read of the whole array
Caller_read ==
    /\ pc = "returned" /\ res.issued < MaxOps
    /\ stream' = Append(stream, [kind |-> "read", value |-> 0, count |-> 0])
    /\ res' = [res EXCEPT !.issued = @ + 1]
    /\ UNCHANGED <<args, pc, log, mem, obs>>

\* the caller enqueues a write of a non-zero value to every element
Caller_write ==
    /\ pc = "returned" /\ res.issued < MaxOps
    /\ stream' = Append(stream, [kind |-> "write", value |-> 1, count |-> 0])
    /\ res' = [res EXCEPT !.issued = @ + 1]
    /\ UNCHANGED <<args, pc, log, mem, obs>>

\* the device runs the oldest operation of the stream.  A read of bytes
\* beyond the buffer is an out-of-bounds access: it may find anything there.
Stream_run ==
    /\ stream # <<>>
    /\ LET op == Head(stream)
           bytes == ElementBytes(res.out.arr)
           beyond == {b \in bytes : b >= res.out.arr.bufbytes}
       IN /\ stream' = Tail(stream)
          /\ log' = Append(log, op)
          /\ mem' = CASE op.kind = "memset_async" -> mem \ (0 .. op.count - 1)
                      [] op.kind = "write" -> mem \ bytes
                      [] OTHER -> mem
          /\ IF op.kind = "read"
             THEN \E stray \in (IF beyond = {} THEN {FALSE} ELSE BOOLEAN) :
                     obs' = obs \cup {IF mem \cap bytes # {} \/ stray
                                      THEN "uninitialized" ELSE "initialized"}
             ELSE obs' = obs
    /\ UNCHANGED <<args, pc, res>>

NextStream ==
    \/ Zeros_ndarray
    \/ Zeros_memset_async
    \/ ZerosLike_ndarray
    \/ ZerosLike_memset_async
    \/ Return
    \/ Caller_read
    \/ Caller_write
    \/ Stream_run

SpecStream == InitStream /\ [][NextStream]_vars

\* the shape and dtype the caller asked for
RequestedShape ==
    IF args.fn = "zeros" \/ ShapeGiven THEN as_tuple(args.shape)
    ELSE args.a.shape

RequestedDtype ==
    IF args.fn = "zeros_like" /\ args.dtype = "None" THEN args.a.dtype
    ELSE args.dtype

\* every operation enqueued so far, oldest first
History == log \o stream

\* C9: once zeros or zeros_like has returned, the array has the requested
\* shape and dtype, the zero-fill over its full byte extent was enqueued
\* before anything the caller enqueues, and no read that has run observed an
\* uninitialized element.
C9_ReadsAfterReturnSeeZeroFill ==
    /\ pc = "returned" =>
          /\ res.out.arr.shape = RequestedShape
          /\ res.out.arr.dtype = RequestedDtype
          /\ Len(History) >= 1
          /\ History[1] = [kind |-> "memset_async", value |-> 0,
                           count |-> nbytes(res.out.arr)]
          /\ ElementBytes(res.out.arr) \subseteq 0 .. History[1].count - 1
    /\ "uninitialized" \notin obs

\* C9 for the calls whose shape argument Python treats as true or is None:
\* there the code does what the claim says.
C9_HoldsUnlessOverrideIsFalsy ==
    (args.shape.kind = "none" \/ Truthy(args.shape)) =>
        C9_ReadsAfterReturnSeeZeroFill

\* the part of C9 about what reads observe
C9_NoUninitializedRead == "uninitialized" \notin obs

\* the fill was still pending when the call returned, the buffer held
\* garbage, and a read that ran later found every element initialized
C9_ReadAfterPendingFill ==
    /\ pc = "returned" /\ res.fn = "zeros_like" /\ res.pending_at_return
    /\ res.out.strides.given
    /\ res.garbage = 0 .. 3
    /\ obs = {"initialized"}
    /\ Len(log) = 2 /\ log[2].kind = "read"

=============================================================================
